---- MODULE Spec2Model ----
(***************************************************************************)
(* Model of decay.py: the Bateman two-member population formulas, the      *)
(* three-link chain U-234 -> Th-230 -> Ra-226 -> Rn-222 evaluated by the   *)
(* module-level statements, the activities and the equilibrium analysis.   *)
(*                                                                         *)
(* Numbers.  The script computes with IEEE doubles; the model computes     *)
(* with exact real arithmetic on the sub-domain where that is possible     *)
(* with integers: every decay constant is ln(2)/T_half (lines 17-20), so   *)
(* a real value of the program is a polynomial in the indeterminate        *)
(* L = ln 2 with rational coefficients, and exp(-lambda*t) = 2^(-t/T_half) *)
(* is rational whenever t/T_half is an integer.  The configurations drawn  *)
(* by Init keep t/T_half integral.  Floating-point rounding, overflow and  *)
(* NaN/Inf are not modelled.  np.log(0.01) is no rational multiple of      *)
(* ln 2; where it is divided by a decay constant both logarithms are       *)
(* replaced by computed rational enclosures.                               *)
(***************************************************************************)
EXTENDS Integers, Sequences, FiniteSets, TLC

(***************************************************************************)
(* Rationals <<n, d>>, d > 0, in lowest terms.                             *)
(***************************************************************************)
Abs(x) == IF x < 0 THEN -x ELSE x

Max(a, b) == IF a < b THEN b ELSE a

RECURSIVE Gcd(_, _)
Gcd(a, b) == IF b = 0 THEN a ELSE Gcd(b, a % b)

Rat(n, d) ==
    LET s == IF d < 0 THEN -1 ELSE 1
        g == Gcd(Abs(n), Abs(d))
    IN  <<(s * n) \div g, (s * d) \div g>>

RZero == <<0, 1>>

RNeg(x) == <<-x[1], x[2]>>

RAdd(x, y) ==
    LET g == Gcd(x[2], y[2])
    IN  Rat(x[1] * (y[2] \div g) + y[1] * (x[2] \div g), (x[2] \div g) * y[2])

RMul(x, y) ==
    LET g1 == Gcd(Abs(x[1]), y[2])
        g2 == Gcd(Abs(y[1]), x[2])
    IN  Rat((x[1] \div g1) * (y[1] \div g2), (x[2] \div g2) * (y[2] \div g1))

RInv(x) == Rat(x[2], x[1])

RDiv(x, y) == RMul(x, RInv(y))

\* x <= y, comparing the integer parts before the fractional parts.
RLeq(x, y) ==
    LET fx == x[1] \div x[2]
        fy == y[1] \div y[2]
    IN  IF fx # fy THEN fx < fy
        ELSE (x[1] - fx * x[2]) * y[2] <= (y[1] - fy * y[2]) * x[2]

RECURSIVE Pow2Nat(_)
Pow2Nat(k) == IF k = 0 THEN 1 ELSE 2 * Pow2Nat(k - 1)

\* 2^k for an integer k of either sign.
Pow2(k) == IF k >= 0 THEN <<Pow2Nat(k), 1>> ELSE <<1, Pow2Nat(-k)>>

(***************************************************************************)
(* Real scalars: polynomials in L = ln 2, <<c0, c1, ...>> standing for     *)
(* c0 + c1*L + c2*L^2 + ..., without trailing zero coefficients.           *)
(***************************************************************************)
RECURSIVE PTrim(_)
PTrim(p) ==
    IF Len(p) = 0 THEN <<>>
    ELSE IF p[Len(p)] = RZero THEN PTrim(SubSeq(p, 1, Len(p) - 1))
    ELSE p

PCoef(p, i) == IF i <= Len(p) THEN p[i] ELSE RZero

Num(n) == PTrim(<<Rat(n, 1)>>)

Frac(q) == PTrim(<<q>>)

\* q * ln(2)
TimesLn2(q) == PTrim(<<RZero, q>>)

PNeg(p) == [i \in 1..Len(p) |-> RNeg(p[i])]

PAdd(p, q) ==
    PTrim([i \in 1..Max(Len(p), Len(q)) |-> RAdd(PCoef(p, i), PCoef(q, i))])

PSub(p, q) == PAdd(p, PNeg(q))

RECURSIVE ConvSum(_, _, _, _)
ConvSum(p, q, k, i) ==
    IF i > Len(p) THEN RZero
    ELSE IF k + 1 - i < 1 \/ k + 1 - i > Len(q) THEN ConvSum(p, q, k, i + 1)
    ELSE RAdd(RMul(p[i], q[k + 1 - i]), ConvSum(p, q, k, i + 1))

PMul(p, q) ==
    IF Len(p) = 0 \/ Len(q) = 0 THEN <<>>
    ELSE PTrim([k \in 1..(Len(p) + Len(q) - 1) |-> ConvSum(p, q, k, 1)])

\* A single term c*L^m with c # 0 (every divisor of the script is one).
IsMonomial(q) ==
    /\ Len(q) > 0
    /\ \A i \in 1..(Len(q) - 1) : q[i] = RZero

\* p / q for a monomial q that divides p termwise; a zero divisor, or any
\* other divisor, has no value here.
PDiv(p, q) ==
    LET m == Len(q)
    IN  CASE IsMonomial(q) /\ Len(p) = 0 -> <<>>
          [] IsMonomial(q) /\ Len(p) >= m
                /\ (\A i \in 1..(m - 1) : p[i] = RZero) ->
                [i \in 1..(Len(p) - (m - 1)) |-> RDiv(p[i + m - 1], q[m])]

\* exp(p) for p = k*L with k an integer: 2^k; no value for any other p.
PExp(p) ==
    CASE Len(p) = 0 -> Num(1)
      [] Len(p) = 2 /\ p[1] = RZero /\ p[2][2] = 1 -> Frac(Pow2(p[2][1]))

\* Sign tests.  L > 0, so a polynomial whose coefficients are all >= 0 is
\* >= 0, and one whose coefficients are all <= 0 and not all 0 is < 0.
\* Exact for polynomials of a single term (all initial counts, all decay
\* constants, all time values).
IsNonNeg(p) == \A i \in 1..Len(p) : p[i][1] >= 0

IsNegative(p) == Len(p) > 0 /\ \A i \in 1..Len(p) : p[i][1] <= 0

IsPositive(p) == Len(p) > 0 /\ \A i \in 1..Len(p) : p[i][1] >= 0

(***************************************************************************)
(* Rational enclosures of the two logarithms of the equilibrium analysis.  *)
(* atanh(1/n) = sum over k >= 0 of 1 / ((2k+1) * n^(2k+1)); ln 2 =         *)
(* 2*atanh(1/3) and ln 100 = 12*atanh(1/3) + 4*atanh(1/9).                 *)
(***************************************************************************)
LogScale == 10^8

LogUnit == 10^3

\* Sum of floor(LogScale / ((2k+1) * n^(2k+1))), p = floor(LogScale / n^(2k+1)).
RECURSIVE AtanhSum(_, _, _)
AtanhSum(p, n, k) ==
    IF p = 0 THEN 0
    ELSE (p \div (2 * k + 1)) + AtanhSum(p \div (n * n), n, k + 1)

RECURSIVE AtanhTerms(_, _)
AtanhTerms(p, n) == IF p = 0 THEN 0 ELSE 1 + AtanhTerms(p \div (n * n), n)

\* LogScale * atanh(1/n) lies in [AtanhLo(n), AtanhHi(n)], n >= 3: each of the
\* summed terms is short of its true value by less than 1 and the terms left
\* out sum to less than 2.
AtanhLo(n) == AtanhSum(LogScale \div n, n, 0)

AtanhHi(n) == AtanhLo(n) + AtanhTerms(LogScale \div n, n) + 2

CeilDiv(a, b) == (a + b - 1) \div b

\* ln 2 and ln 100 in units of 1/LogUnit, rounded outwards.
Ln2Lo == (2 * AtanhLo(3)) \div (LogScale \div LogUnit)

Ln2Hi == CeilDiv(2 * AtanhHi(3), LogScale \div LogUnit)

Ln100Lo == (12 * AtanhLo(3) + 4 * AtanhLo(9)) \div (LogScale \div LogUnit)

Ln100Hi == CeilDiv(12 * AtanhHi(3) + 4 * AtanhHi(9), LogScale \div LogUnit)

(***************************************************************************)
(* numpy values: a scalar, or a one-dimensional array; arithmetic is        *)
(* elementwise and a scalar operand is broadcast over an array operand.    *)
(***************************************************************************)
Unset == [kind |-> "unset", v |-> <<>>]

Scalar(p) == [kind |-> "scalar", v |-> p]

Array(s) == [kind |-> "array", v |-> s]

\* A value known by a rational enclosure lo <= x <= hi.
Interval(lo, hi) == [kind |-> "interval", v |-> <<lo, hi>>]

IsArray(x) == x.kind = "array"

\* Variant: an array operand contributes its first element to every index.
ElemAtFirst(x, i) == IF IsArray(x) THEN x.v[1] ELSE x.v

ElemAt(x, i) == IF IsArray(x) THEN x.v[i] ELSE x.v

BroadcastLen(x, y) == IF IsArray(x) THEN Len(x.v) ELSE Len(y.v)

Elementwise2(op, a, b) ==
    CASE op = "+" -> PAdd(a, b)
      [] op = "-" -> PSub(a, b)
      [] op = "*" -> PMul(a, b)
      [] op = "/" -> PDiv(a, b)

Elementwise1(op, a) ==
    CASE op = "neg" -> PNeg(a)
      [] op = "exp" -> PExp(a)

NpBinary(op, x, y) ==
    IF IsArray(x) \/ IsArray(y)
    THEN Array([i \in 1..BroadcastLen(x, y) |->
                  Elementwise2(op, ElemAt(x, i), ElemAt(y, i))])
    ELSE Scalar(Elementwise2(op, x.v, y.v))

NpUnary(op, x) ==
    IF IsArray(x) THEN Array([i \in 1..Len(x.v) |-> Elementwise1(op, x.v[i])])
    ELSE Scalar(Elementwise1(op, x.v))

NpAdd(x, y) == NpBinary("+", x, y)

NpSub(x, y) == NpBinary("-", x, y)

NpMul(x, y) == NpBinary("*", x, y)

NpDiv(x, y) == NpBinary("/", x, y)

NpNeg(x) == NpUnary("neg", x)

NpExp(x) == NpUnary("exp", x)

\* np.log(2), kept symbolic.
NpLog2 == Scalar(TimesLn2(<<1, 1>>))

\* -np.log(0.01) / lam for a decay constant lam = c * ln 2, c # 0.
NegLog001Over(lam) ==
    LET c  == lam.v[2]
        lo == RDiv(<<Ln100Lo, Ln2Hi>>, c)
        hi == RDiv(<<Ln100Hi, Ln2Lo>>, c)
    IN  IF c[1] > 0 THEN Interval(lo, hi) ELSE Interval(hi, lo)

(***************************************************************************)
(* The functions of decay.py.                                              *)
(***************************************************************************)
\* np.exp(-lam * t)
ExpDecay(lam, t) == NpExp(NpMul(NpNeg(lam), t))

\* line 46
ParentPopulation(t, lambda_parent, N0_parent) ==
    NpMul(N0_parent, ExpDecay(lambda_parent, t))

\* Variant: the comparison with a tolerance of ln 2.
LambdasDifferTolerant(lambda_parent, lambda_daughter) ==
    LET d == PSub(lambda_daughter.v, lambda_parent.v)
    IN  Len(d) > 0 /\ ~RLeq(<<Abs(d[2][1]), d[2][2]>>, <<1, 1>>)

\* line 49
LambdasDiffer(lambda_parent, lambda_daughter) ==
    lambda_parent # lambda_daughter

\* Variant: the divisor written lambda_parent - lambda_daughter.
DaughterGeneralSwapped(t, lambda_parent, lambda_daughter, N0_parent, N0_daughter) ==
    NpAdd(NpMul(NpDiv(NpMul(lambda_parent, N0_parent),
                      NpSub(lambda_parent, lambda_daughter)),
                NpSub(ExpDecay(lambda_parent, t), ExpDecay(lambda_daughter, t))),
          NpMul(N0_daughter, ExpDecay(lambda_daughter, t)))

\* Variant: the two exponentials added instead of subtracted.
DaughterGeneralSum(t, lambda_parent, lambda_daughter, N0_parent, N0_daughter) ==
    NpAdd(NpMul(NpDiv(NpMul(lambda_parent, N0_parent),
                      NpSub(lambda_daughter, lambda_parent)),
                NpAdd(ExpDecay(lambda_parent, t), ExpDecay(lambda_daughter, t))),
          NpMul(N0_daughter, ExpDecay(lambda_daughter, t)))

\* lines 50-52
DaughterGeneral(t, lambda_parent, lambda_daughter, N0_parent, N0_daughter) ==
    NpAdd(NpMul(NpDiv(NpMul(lambda_parent, N0_parent),
                      NpSub(lambda_daughter, lambda_parent)),
                NpSub(ExpDecay(lambda_parent, t), ExpDecay(lambda_daughter, t))),
          NpMul(N0_daughter, ExpDecay(lambda_daughter, t)))

\* lines 55-56
DaughterDegenerate(t, lambda_parent, N0_parent, N0_daughter) ==
    NpAdd(NpMul(NpMul(NpMul(lambda_parent, N0_parent), t),
                ExpDecay(lambda_parent, t)),
          NpMul(N0_daughter, ExpDecay(lambda_parent, t)))

\* line 71
calculate_activity(N, lambda_decay) == NpMul(lambda_decay, N)

\* lines 17-20: np.log(2) / T_half
DecayConstant(T) == NpDiv(NpLog2, Scalar(Frac(T)))

\* Variant: the quotient inverted.
EquilibriumRatioInverted(lambda_parent, lambda_daughter) ==
    NpDiv(lambda_parent, lambda_daughter)

\* lines 149-151: lambda_daughter / lambda_parent
EquilibriumRatio(lambda_parent, lambda_daughter) ==
    NpDiv(lambda_daughter, lambda_parent)

\* Variant: the minus sign lost, np.log(0.01) / lambda_parent.
TimeTo99SignLost(lambda_parent) ==
    LET x == NegLog001Over(lambda_parent)
    IN  Interval(RNeg(x.v[2]), RNeg(x.v[1]))

\* lines 154-156: -np.log(0.01) / lambda_parent
TimeTo99PercentEquilibrium(lambda_parent) == NegLog001Over(lambda_parent)

\* line 29: np.linspace(start, stop, num) with an integral step.
Linspace(start, stop, num) ==
    Array([i \in 1..num |->
             Num(start + ((i - 1) * (stop - start)) \div Max(num - 1, 1))])

(***************************************************************************)
(* Configuration: lines 11-29.                                             *)
(***************************************************************************)
Nuclides == {"U234", "Th230", "Ra226", "Rn222"}

T_half_U234 == 245500

T_half_Th230 == 75380

T_half_Ra226 == 1600

\* 3.82/365
T_half_Rn222 == Rat(382, 36500)

N0_U234 == 100000

N0_Th230 == 0

N0_Ra226 == 0

N0_Rn222 == 0

\* Largest initial count and largest time value of the drawn configurations.
MaxN0 == 1

MaxTime == 2

\* Half-lives drawn: 1, 1/2 (two distinct positive decay constants, so that
\* both orderings and equality occur in every link) and -1 (a negative decay
\* constant).
HalfLives == {Rat(1, 1), Rat(1, 2), Rat(-1, 1)}

InitialCounts == (-1)..MaxN0

\* Initial counts drawn: any count for U-234, and at most one of the three
\* daughters starting away from 0.
InitialCountChoices ==
    { n0 \in [Nuclides -> InitialCounts] :
        Cardinality({n \in Nuclides \ {"U234"} : n0[n] # 0}) <= 1 }

Reversed(a) == Array([i \in 1..Len(a.v) |-> a.v[Len(a.v) + 1 - i]])

\* Time grids drawn: the empty grid, 0, 1, ..., MaxTime, and the same grid
\* backwards (not monotonically increasing).
TimeGrids ==
    { Array(<<>>),
      Linspace(0, MaxTime, MaxTime + 1),
      Reversed(Linspace(0, MaxTime, MaxTime + 1)) }

ReferenceHalfLives ==
    [n \in Nuclides |->
        CASE n = "U234" -> Rat(T_half_U234, 1)
          [] n = "Th230" -> Rat(T_half_Th230, 1)
          [] n = "Ra226" -> Rat(T_half_Ra226, 1)
          [] n = "Rn222" -> T_half_Rn222]

ReferenceCounts ==
    [n \in Nuclides |->
        CASE n = "U234" -> N0_U234
          [] n = "Th230" -> N0_Th230
          [] n = "Ra226" -> N0_Ra226
          [] n = "Rn222" -> N0_Rn222]

VARIABLES
    T_half,             \* nuclide -> half-life (a rational)
    lambda,             \* nuclide -> decay constant
    N0,                 \* nuclide -> initial count
    t,                  \* the time grid
    pc,                 \* the statement about to run
    frame,              \* the activation of calculate_nuclei_population
    N_U234, N_Th230, N_Th230_from_U, N_Ra226, N_Ra226_from_Th, N_Rn222,
    A_U234, A_Th230, A_Ra226, A_Rn222,
    ratio_Th230, ratio_Ra226, ratio_Rn222,
    t_equilibrium_Th, t_equilibrium_Ra, t_equilibrium_Rn

config == <<T_half, lambda, N0, t>>

populations ==
    <<N_U234, N_Th230, N_Th230_from_U, N_Ra226, N_Ra226_from_Th, N_Rn222>>

activities == <<A_U234, A_Th230, A_Ra226, A_Rn222>>

equilibrium ==
    <<ratio_Th230, ratio_Ra226, ratio_Rn222,
      t_equilibrium_Th, t_equilibrium_Ra, t_equilibrium_Rn>>

vars == <<config, pc, frame, populations, activities, equilibrium>>

NoFrame ==
    [caller |-> "none", t |-> Unset, lambda_parent |-> Unset,
     lambda_daughter |-> Unset, N0_parent |-> Unset, N0_daughter |-> Unset,
     N_parent |-> Unset, N_daughter |-> Unset]

Configure(hl, n0, grid) ==
    /\ T_half = hl
    /\ lambda = [n \in Nuclides |-> DecayConstant(hl[n])]
    /\ N0 = [n \in Nuclides |-> Scalar(Num(n0[n]))]
    /\ t = grid
    /\ pc = "L74"
    /\ frame = NoFrame
    /\ N_U234 = Unset /\ N_Th230 = Unset /\ N_Th230_from_U = Unset
    /\ N_Ra226 = Unset /\ N_Ra226_from_Th = Unset /\ N_Rn222 = Unset
    /\ A_U234 = Unset /\ A_Th230 = Unset /\ A_Ra226 = Unset /\ A_Rn222 = Unset
    /\ ratio_Th230 = Unset /\ ratio_Ra226 = Unset /\ ratio_Rn222 = Unset
    /\ t_equilibrium_Th = Unset /\ t_equilibrium_Ra = Unset
    /\ t_equilibrium_Rn = Unset

\* The reference constants are evaluated at t = 0 only, where exp is exact.
Init ==
    \/ \E hl \in [Nuclides -> HalfLives], n0 \in InitialCountChoices,
          grid \in TimeGrids : Configure(hl, n0, grid)
    \/ Configure(ReferenceHalfLives, ReferenceCounts, Linspace(0, 0, 1))

(***************************************************************************)
(* Lines 74-76: the three calls of calculate_nuclei_population.            *)
(***************************************************************************)
Link1Args ==
    [caller |-> "L74", t |-> t,
     lambda_parent |-> lambda["U234"], lambda_daughter |-> lambda["Th230"],
     N0_parent |-> N0["U234"], N0_daughter |-> N0["Th230"],
     N_parent |-> Unset, N_daughter |-> Unset]

Link2Args ==
    [caller |-> "L75", t |-> t,
     lambda_parent |-> lambda["Th230"], lambda_daughter |-> lambda["Ra226"],
     N0_parent |-> N_Th230, N0_daughter |-> N0["Ra226"],
     N_parent |-> Unset, N_daughter |-> Unset]

\* Variant: link 3 fed the parent series of link 2.
Link3ArgsParentSeries ==
    [caller |-> "L76", t |-> t,
     lambda_parent |-> lambda["Ra226"], lambda_daughter |-> lambda["Rn222"],
     N0_parent |-> N_Th230_from_U, N0_daughter |-> N0["Rn222"],
     N_parent |-> Unset, N_daughter |-> Unset]

Link3Args ==
    [caller |-> "L76", t |-> t,
     lambda_parent |-> lambda["Ra226"], lambda_daughter |-> lambda["Rn222"],
     N0_parent |-> N_Ra226, N0_daughter |-> N0["Rn222"],
     N_parent |-> Unset, N_daughter |-> Unset]

Call(line, args) ==
    /\ pc = line
    /\ frame' = args
    /\ pc' = "L46"
    /\ UNCHANGED <<config, populations, activities, equilibrium>>

Call74 == Call("L74", Link1Args)

Call75 == Call("L75", Link2Args)

Call76 == Call("L76", Link3Args)

Line46 ==
    /\ pc = "L46"
    /\ frame' = [frame EXCEPT !.N_parent =
                    ParentPopulation(frame.t, frame.lambda_parent, frame.N0_parent)]
    /\ pc' = "L49"
    /\ UNCHANGED <<config, populations, activities, equilibrium>>

Line49 ==
    /\ pc = "L49"
    /\ pc' = IF LambdasDiffer(frame.lambda_parent, frame.lambda_daughter)
             THEN "L50" ELSE "L55"
    /\ UNCHANGED <<config, frame, populations, activities, equilibrium>>

Line50 ==
    /\ pc = "L50"
    /\ frame' = [frame EXCEPT !.N_daughter =
                    DaughterGeneral(frame.t, frame.lambda_parent,
                                    frame.lambda_daughter, frame.N0_parent,
                                    frame.N0_daughter)]
    /\ pc' = "L58"
    /\ UNCHANGED <<config, populations, activities, equilibrium>>

Line55 ==
    /\ pc = "L55"
    /\ frame' = [frame EXCEPT !.N_daughter =
                    DaughterDegenerate(frame.t, frame.lambda_parent,
                                       frame.N0_parent, frame.N0_daughter)]
    /\ pc' = "L58"
    /\ UNCHANGED <<config, populations, activities, equilibrium>>

\* line 58 and the unpacking assignment of the calling line.
Return74 ==
    /\ pc = "L58" /\ frame.caller = "L74"
    /\ N_U234' = frame.N_parent
    /\ N_Th230' = frame.N_daughter
    /\ frame' = NoFrame
    /\ pc' = "L75"
    /\ UNCHANGED <<config, N_Th230_from_U, N_Ra226, N_Ra226_from_Th, N_Rn222,
                   activities, equilibrium>>

Return75 ==
    /\ pc = "L58" /\ frame.caller = "L75"
    /\ N_Th230_from_U' = frame.N_parent
    /\ N_Ra226' = frame.N_daughter
    /\ frame' = NoFrame
    /\ pc' = "L76"
    /\ UNCHANGED <<config, N_U234, N_Th230, N_Ra226_from_Th, N_Rn222,
                   activities, equilibrium>>

Return76 ==
    /\ pc = "L58" /\ frame.caller = "L76"
    /\ N_Ra226_from_Th' = frame.N_parent
    /\ N_Rn222' = frame.N_daughter
    /\ frame' = NoFrame
    /\ pc' = "L79"
    /\ UNCHANGED <<config, N_U234, N_Th230, N_Th230_from_U, N_Ra226,
                   activities, equilibrium>>

(***************************************************************************)
(* Lines 79-82: the activities.                                            *)
(***************************************************************************)
Line79 ==
    /\ pc = "L79"
    /\ A_U234' = calculate_activity(N_U234, lambda["U234"])
    /\ pc' = "L80"
    /\ UNCHANGED <<config, frame, populations, A_Th230, A_Ra226, A_Rn222,
                   equilibrium>>

Line80 ==
    /\ pc = "L80"
    /\ A_Th230' = calculate_activity(N_Th230, lambda["Th230"])
    /\ pc' = "L81"
    /\ UNCHANGED <<config, frame, populations, A_U234, A_Ra226, A_Rn222,
                   equilibrium>>

Line81 ==
    /\ pc = "L81"
    /\ A_Ra226' = calculate_activity(N_Ra226_from_Th, lambda["Ra226"])
    /\ pc' = "L82"
    /\ UNCHANGED <<config, frame, populations, A_U234, A_Th230, A_Rn222,
                   equilibrium>>

Line82 ==
    /\ pc = "L82"
    /\ A_Rn222' = calculate_activity(N_Rn222, lambda["Rn222"])
    /\ pc' = "L149"
    /\ UNCHANGED <<config, frame, populations, A_U234, A_Th230, A_Ra226,
                   equilibrium>>

(***************************************************************************)
(* Lines 149-156: the equilibrium analysis.                                *)
(***************************************************************************)
Line149 ==
    /\ pc = "L149"
    /\ ratio_Th230' = EquilibriumRatio(lambda["U234"], lambda["Th230"])
    /\ pc' = "L150"
    /\ UNCHANGED <<config, frame, populations, activities, ratio_Ra226,
                   ratio_Rn222, t_equilibrium_Th, t_equilibrium_Ra,
                   t_equilibrium_Rn>>

Line150 ==
    /\ pc = "L150"
    /\ ratio_Ra226' = EquilibriumRatio(lambda["Th230"], lambda["Ra226"])
    /\ pc' = "L151"
    /\ UNCHANGED <<config, frame, populations, activities, ratio_Th230,
                   ratio_Rn222, t_equilibrium_Th, t_equilibrium_Ra,
                   t_equilibrium_Rn>>

Line151 ==
    /\ pc = "L151"
    /\ ratio_Rn222' = EquilibriumRatio(lambda["Ra226"], lambda["Rn222"])
    /\ pc' = "L154"
    /\ UNCHANGED <<config, frame, populations, activities, ratio_Th230,
                   ratio_Ra226, t_equilibrium_Th, t_equilibrium_Ra,
                   t_equilibrium_Rn>>

Line154 ==
    /\ pc = "L154"
    /\ t_equilibrium_Th' = TimeTo99PercentEquilibrium(lambda["U234"])
    /\ pc' = "L155"
    /\ UNCHANGED <<config, frame, populations, activities, ratio_Th230,
                   ratio_Ra226, ratio_Rn222, t_equilibrium_Ra, t_equilibrium_Rn>>

Line155 ==
    /\ pc = "L155"
    /\ t_equilibrium_Ra' = TimeTo99PercentEquilibrium(lambda["Th230"])
    /\ pc' = "L156"
    /\ UNCHANGED <<config, frame, populations, activities, ratio_Th230,
                   ratio_Ra226, ratio_Rn222, t_equilibrium_Th, t_equilibrium_Rn>>

Line156 ==
    /\ pc = "L156"
    /\ t_equilibrium_Rn' = TimeTo99PercentEquilibrium(lambda["Ra226"])
    /\ pc' = "done"
    /\ UNCHANGED <<config, frame, populations, activities, ratio_Th230,
                   ratio_Ra226, ratio_Rn222, t_equilibrium_Th, t_equilibrium_Ra>>

\* Lines 85-133 (the figure) and the print statements only read the values
\* computed here.
Next ==
    \/ Call74 \/ Call75 \/ Call76
    \/ Line46 \/ Line49 \/ Line50 \/ Line55
    \/ Return74 \/ Return75 \/ Return76
    \/ Line79 \/ Line80 \/ Line81 \/ Line82
    \/ Line149 \/ Line150 \/ Line151
    \/ Line154 \/ Line155 \/ Line156

Spec == Init /\ [][Next]_vars

(***************************************************************************)
(* Vocabulary of the properties.                                           *)
(***************************************************************************)
IsSet(x) == x.kind # "unset"

InCall == pc \in {"L46", "L49", "L50", "L55", "L58"}

\* Element i of a series, or the scalar itself.
At(x, i) == IF x.kind = "array" THEN x.v[i] ELSE x.v

AllNonNeg(x) ==
    IF IsArray(x) THEN \A i \in 1..Len(x.v) : IsNonNeg(x.v[i])
    ELSE IsNonNeg(x.v)

SomePositive(x) ==
    IsArray(x) /\ \E i \in 1..Len(x.v) : IsPositive(x.v[i])

\* The value of a time point (a polynomial of degree 0) as a rational.
TimeValue(p) == PCoef(p, 1)

Increasing(grid) ==
    \A i \in 1..(Len(grid.v) - 1) :
        /\ RLeq(TimeValue(grid.v[i]), TimeValue(grid.v[i + 1]))
        /\ grid.v[i] # grid.v[i + 1]

\* lambda > 0, N0 >= 0 (a scalar, or every element of a series), t >= 0.
ValidCallInputs(f) ==
    /\ IsPositive(f.lambda_parent.v)
    /\ IsPositive(f.lambda_daughter.v)
    /\ AllNonNeg(f.N0_parent)
    /\ AllNonNeg(f.N0_daughter)
    /\ AllNonNeg(f.t)

\* The daughter formula the source selects, applied to one time point and
\* one parent value.
DaughterAt(ti, lp, ld, n0p, n0d) ==
    IF lp # ld THEN DaughterGeneral(Scalar(ti), lp, ld, Scalar(n0p), n0d).v
    ELSE DaughterDegenerate(Scalar(ti), lp, Scalar(n0p), n0d).v

ParentAt(ti, lp, n0p) == ParentPopulation(Scalar(ti), lp, Scalar(n0p)).v

(***************************************************************************)
(* C1: when calculate_nuclei_population is about to return (line 58) from  *)
(* a call with lambda_parent > 0, lambda_daughter > 0, N0_parent >= 0 (a    *)
(* scalar or every element of a series), N0_daughter >= 0 and every        *)
(* t >= 0, every element of N_parent and of N_daughter is >= 0, in the     *)
(* general branch (either ordering) and in the degenerate branch.          *)
(***************************************************************************)
C1_PopulationsNonNegative ==
    (pc = "L58" /\ ValidCallInputs(frame)) =>
        /\ AllNonNeg(frame.N_parent)
        /\ AllNonNeg(frame.N_daughter)

\* A valid call of link 2 (the parent argument is a series), general branch
\* with lambda_parent > lambda_daughter, returning a positive daughter value.
C1_Witness ==
    /\ pc = "L58" /\ ValidCallInputs(frame)
    /\ frame.caller = "L75"
    /\ SomePositive(frame.N0_parent)
    /\ frame.lambda_parent = DecayConstant(Rat(1, 2))
    /\ frame.lambda_daughter = DecayConstant(Rat(1, 1))
    /\ SomePositive(frame.N_daughter)

\* The same in the degenerate branch and with lambda_parent < lambda_daughter.
C1_ReachDegenerate ==
    /\ pc = "L58" /\ ValidCallInputs(frame)
    /\ frame.lambda_parent = frame.lambda_daughter
    /\ SomePositive(frame.N_daughter)

C1_ReachAscending ==
    /\ pc = "L58" /\ ValidCallInputs(frame)
    /\ frame.lambda_parent = DecayConstant(Rat(1, 1))
    /\ frame.lambda_daughter = DecayConstant(Rat(1, 2))
    /\ SomePositive(frame.N_daughter)

(***************************************************************************)
(* C2 (as claimed): a decay constant <= 0 is rejected: no call of          *)
(* calculate_nuclei_population with lambda_parent <= 0 or lambda_daughter  *)
(* <= 0 runs to its return, and no time to equilibrium is produced from a  *)
(* lambda_parent <= 0.                                                     *)
(***************************************************************************)
C2_NonPositiveLambdaRejected ==
    /\ pc = "L58" =>
          /\ IsPositive(frame.lambda_parent.v)
          /\ IsPositive(frame.lambda_daughter.v)
    /\ IsSet(ratio_Th230) => IsPositive(lambda["U234"].v)
    /\ IsSet(t_equilibrium_Th) => IsPositive(lambda["U234"].v)
    /\ IsSet(t_equilibrium_Ra) => IsPositive(lambda["Th230"].v)
    /\ IsSet(t_equilibrium_Rn) => IsPositive(lambda["Ra226"].v)

\* A negative scalar count, an empty grid, or a grid that does not increase.
InvalidPopulationInput(f) ==
    \/ (~IsArray(f.N0_parent) /\ IsNegative(f.N0_parent.v))
    \/ IsNegative(f.N0_daughter.v)
    \/ Len(f.t.v) = 0
    \/ ~Increasing(f.t)

(***************************************************************************)
(* C3 (as claimed): a negative initial population, an empty time grid or a *)
(* time grid that is not increasing is rejected at the function boundary:  *)
(* no such call of calculate_nuclei_population runs to its return.         *)
(***************************************************************************)
C3_InvalidInputRejected == pc = "L58" => ~InvalidPopulationInput(frame)

\* What each call holds while it runs, and which results exist by then.
C4_Feed ==
    /\ (InCall /\ frame.caller = "L74") =>
          /\ frame.N0_parent = N0["U234"]
          /\ frame.N0_daughter = N0["Th230"]
          /\ ~IsSet(N_Th230) /\ ~IsSet(N_Ra226) /\ ~IsSet(N_Rn222)
    /\ (InCall /\ frame.caller = "L75") =>
          /\ IsArray(frame.N0_parent)
          /\ frame.N0_parent = N_Th230
          /\ frame.N0_daughter = N0["Ra226"]
          /\ IsSet(N_Th230) /\ ~IsSet(N_Ra226) /\ ~IsSet(N_Rn222)
    /\ (InCall /\ frame.caller = "L76") =>
          /\ IsArray(frame.N0_parent)
          /\ frame.N0_parent = N_Ra226
          /\ frame.N0_daughter = N0["Rn222"]
          /\ IsSet(N_Th230) /\ IsSet(N_Ra226) /\ ~IsSet(N_Rn222)

\* The return of links 1 and 2 stores the daughter series just computed.
C4_Return ==
    /\ (pc = "L58" /\ frame.caller = "L74") => N_Th230' = frame.N_daughter
    /\ (pc = "L58" /\ frame.caller = "L75") => N_Ra226' = frame.N_daughter

(***************************************************************************)
(* C4: the links run in the order 1, 2, 3; the return of link k stores its *)
(* daughter series in N_Th230 (k = 1) and N_Ra226 (k = 2), and throughout  *)
(* the call of link k+1 its N0_parent is that series while its N0_daughter *)
(* is the link's own declared count N0_Ra226, N0_Rn222.                    *)
(***************************************************************************)
C4_ChainFeedsForward == [](C4_Feed) /\ [][C4_Return]_vars

\* Link 3 running on a Ra-226 series that differs from the parent series of
\* link 2 and from the scalar count, with a non-zero N0_Rn222.
C4_Witness ==
    /\ pc = "L49" /\ frame.caller = "L76"
    /\ SomePositive(frame.N0_parent)
    /\ frame.N0_parent = N_Ra226
    /\ N_Ra226 # N_Th230_from_U
    /\ IsPositive(frame.N0_daughter.v)

(***************************************************************************)
(* C5: line 55 (the degenerate form) is reached exactly when               *)
(* lambda_parent = lambda_daughter and line 50 (the general form) exactly  *)
(* when they differ; the daughter series returned is the one of that form, *)
(* and the divisor lambda_daughter - lambda_parent is not zero at line 50. *)
(***************************************************************************)
C5_ExactBranch ==
    /\ pc = "L55" => frame.lambda_parent = frame.lambda_daughter
    /\ pc = "L50" =>
          /\ frame.lambda_parent # frame.lambda_daughter
          /\ NpSub(frame.lambda_daughter, frame.lambda_parent).v # <<>>
    /\ pc = "L58" =>
          frame.N_daughter =
             IF frame.lambda_parent = frame.lambda_daughter
             THEN DaughterDegenerate(frame.t, frame.lambda_parent,
                                     frame.N0_parent, frame.N0_daughter)
             ELSE DaughterGeneral(frame.t, frame.lambda_parent,
                                  frame.lambda_daughter, frame.N0_parent,
                                  frame.N0_daughter)

\* A degenerate call that returned a series the general form's terms could
\* not give: lambda*N0*t*exp(-lambda*t) is a multiple of ln 2.
C5_Witness ==
    /\ pc = "L58"
    /\ frame.lambda_parent = frame.lambda_daughter
    /\ ~IsArray(frame.N0_parent) /\ IsPositive(frame.N0_parent.v)
    /\ \E i \in 1..Len(frame.N_daughter.v) : Len(frame.N_daughter.v[i]) = 2

C5_ReachGeneral ==
    /\ pc = "L58"
    /\ frame.lambda_parent # frame.lambda_daughter
    /\ SomePositive(frame.N_daughter)

\* The series equals n0 wherever the grid is 0.
StartsAt(series, grid, n0) ==
    IsSet(series) =>
        \A i \in 1..Len(grid.v) : grid.v[i] = Num(0) => series.v[i] = n0.v

(***************************************************************************)
(* C6: at every time point t[i] = 0 the parent series returned equals      *)
(* N0_parent (element i of it when it is a series) and the daughter series *)
(* equals N0_daughter, in both branches; in the chain, N_U234 and the      *)
(* three daughter series N_Th230, N_Ra226, N_Rn222 equal their declared    *)
(* initial counts there, in particular for N0 = (100000, 0, 0, 0).         *)
(***************************************************************************)
C6_InitialValues ==
    /\ pc = "L58" =>
          \A i \in 1..Len(frame.t.v) :
              frame.t.v[i] = Num(0) =>
                  /\ frame.N_parent.v[i] = At(frame.N0_parent, i)
                  /\ frame.N_daughter.v[i] = frame.N0_daughter.v
    /\ StartsAt(N_U234, t, N0["U234"])
    /\ StartsAt(N_Th230, t, N0["Th230"])
    /\ StartsAt(N_Ra226, t, N0["Ra226"])
    /\ StartsAt(N_Rn222, t, N0["Rn222"])

\* The reference chain, all three links done.
C6_Witness ==
    /\ pc = "done"
    /\ T_half = ReferenceHalfLives
    /\ t.v[1] = Num(0)
    /\ N_U234.v[1] = Num(N0_U234)
    /\ N_Th230.v[1] = Num(N0_Th230)
    /\ N_Ra226.v[1] = Num(N0_Ra226)
    /\ N_Rn222.v[1] = Num(N0_Rn222)

\* A call with both initial counts positive, in each branch.
C6_ReachPositive ==
    /\ pc = "L58"
    /\ frame.lambda_parent # frame.lambda_daughter
    /\ SomePositive(frame.N0_parent) /\ IsPositive(frame.N0_daughter.v)
    /\ \E i \in 1..Len(frame.t.v) : frame.t.v[i] = Num(0)

\* T_half_parent / T_half_daughter
HalfLifeRatio(parent, daughter) ==
    Scalar(Frac(RDiv(T_half[parent], T_half[daughter])))

(***************************************************************************)
(* C7: each equilibrium ratio reported is lambda_daughter / lambda_parent  *)
(* of its pair, which equals T_half_parent / T_half_daughter; for          *)
(* U-234 -> Th-230 with half-lives 245500 and 75380 it is 245500/75380,    *)
(* which rounds to 3.257.                                                  *)
(***************************************************************************)
C7_EquilibriumRatio ==
    /\ IsSet(ratio_Th230) => ratio_Th230 = HalfLifeRatio("U234", "Th230")
    /\ IsSet(ratio_Ra226) => ratio_Ra226 = HalfLifeRatio("Th230", "Ra226")
    /\ IsSet(ratio_Rn222) => ratio_Rn222 = HalfLifeRatio("Ra226", "Rn222")
    /\ (IsSet(ratio_Th230) /\ T_half = ReferenceHalfLives) =>
          /\ ratio_Th230.v = Frac(Rat(T_half_U234, T_half_Th230))
          /\ RLeq(Rat(32565, 10000), ratio_Th230.v[1])
          /\ RLeq(ratio_Th230.v[1], Rat(32575, 10000))

C7_Witness ==
    /\ pc = "done"
    /\ T_half = ReferenceHalfLives
    /\ ratio_Th230.v = Frac(Rat(12275, 3769))

\* x is -ln(0.01)/lambda of the given parent, inside the crude bounds.
TimeOf(parent, x) ==
    IsSet(x) =>
        /\ x = NegLog001Over(lambda[parent])
        /\ T_half[parent][1] > 0 =>
              /\ RLeq(RMul(Rat(13, 2), T_half[parent]), x.v[1])
              /\ RLeq(x.v[1], x.v[2])
              /\ RLeq(x.v[2], RMul(Rat(27, 4), T_half[parent]))

(***************************************************************************)
(* C8: the time to 99% of equilibrium of each daughter is                  *)
(* -ln(0.01)/lambda_parent with the decay constant of its immediate parent *)
(* (U-234 for Th-230, Th-230 for Ra-226, Ra-226 for Rn-222): for a         *)
(* positive half-life T of the parent its enclosure lies within            *)
(* [6.5*T, 6.75*T] (2^6.5 < 100 < 2^6.75), and for T = 245500 within       *)
(* [1625000, 1635000].                                                     *)
(***************************************************************************)
C8_TimeToEquilibrium ==
    /\ TimeOf("U234", t_equilibrium_Th)
    /\ TimeOf("Th230", t_equilibrium_Ra)
    /\ TimeOf("Ra226", t_equilibrium_Rn)
    /\ (IsSet(t_equilibrium_Th) /\ T_half = ReferenceHalfLives) =>
          /\ RLeq(Rat(1625000, 1), t_equilibrium_Th.v[1])
          /\ RLeq(t_equilibrium_Th.v[2], Rat(1635000, 1))

C8_Witness ==
    /\ pc = "done"
    /\ T_half = ReferenceHalfLives
    /\ t_equilibrium_Th.kind = "interval"
    /\ t_equilibrium_Ra.kind = "interval"
    /\ t_equilibrium_Rn.kind = "interval"

\* A = lam * N, element by element.
ActivityOf(A, N, lam) ==
    IsSet(A) =>
        /\ Len(A.v) = Len(N.v)
        /\ \A i \in 1..Len(A.v) : A.v[i] = PMul(lam.v, N.v[i])

(***************************************************************************)
(* C9 (as claimed): each activity series is lambda * N elementwise with N  *)
(* the population the chain computed for the nuclide: N_U234 (parent       *)
(* series of link 1), N_Th230, N_Ra226 and N_Rn222 (daughter series of     *)
(* links 1, 2 and 3).                                                      *)
(***************************************************************************)
C9_ActivityOfChainPopulation ==
    /\ ActivityOf(A_U234, N_U234, lambda["U234"])
    /\ ActivityOf(A_Th230, N_Th230, lambda["Th230"])
    /\ ActivityOf(A_Ra226, N_Ra226, lambda["Ra226"])
    /\ ActivityOf(A_Rn222, N_Rn222, lambda["Rn222"])

\* An array with one element per time point.
Aligned(series) ==
    IsSet(series) => (IsArray(series) /\ Len(series.v) = Len(t.v))

ParentPointwise(series, lp, n0p) ==
    IsSet(series) =>
        \A i \in 1..Len(t.v) :
            series.v[i] = ParentAt(t.v[i], lp, At(n0p, i))

DaughterPointwise(series, lp, ld, n0p, n0d) ==
    IsSet(series) =>
        \A i \in 1..Len(t.v) :
            series.v[i] = DaughterAt(t.v[i], lp, ld, At(n0p, i), n0d)

ActivityPointwise(A, N, lam) ==
    IsSet(A) => \A i \in 1..Len(t.v) : A.v[i] = PMul(lam.v, N.v[i])

C10_Pointwise ==
    /\ ParentPointwise(N_U234, lambda["U234"], N0["U234"])
    /\ DaughterPointwise(N_Th230, lambda["U234"], lambda["Th230"],
                         N0["U234"], N0["Th230"])
    /\ ParentPointwise(N_Th230_from_U, lambda["Th230"], N_Th230)
    /\ DaughterPointwise(N_Ra226, lambda["Th230"], lambda["Ra226"],
                         N_Th230, N0["Ra226"])
    /\ ParentPointwise(N_Ra226_from_Th, lambda["Ra226"], N_Ra226)
    /\ DaughterPointwise(N_Rn222, lambda["Ra226"], lambda["Rn222"],
                         N_Ra226, N0["Rn222"])
    /\ ActivityPointwise(A_U234, N_U234, lambda["U234"])
    /\ ActivityPointwise(A_Th230, N_Th230, lambda["Th230"])
    /\ ActivityPointwise(A_Ra226, N_Ra226_from_Th, lambda["Ra226"])
    /\ ActivityPointwise(A_Rn222, N_Rn222, lambda["Rn222"])

(***************************************************************************)
(* C10: every population series and every activity series has as many     *)
(* elements as the time grid, and its element i is the formula evaluated   *)
(* at t[i] alone and, when the parent population is a series, at element i *)
(* of that series alone; for all three links.  A series is assigned once   *)
(* and never changed, so the elementwise part is stated of the finished    *)
(* run, which holds every series produced.                                 *)
(***************************************************************************)
C10_SeriesAligned ==
    /\ \A s \in {N_U234, N_Th230, N_Th230_from_U, N_Ra226, N_Ra226_from_Th,
                 N_Rn222, A_U234, A_Th230, A_Ra226, A_Rn222} : Aligned(s)
    /\ pc = "done" => C10_Pointwise

\* A finished run over the full grid whose last series takes a different
\* value at every time point.
C10_Witness ==
    /\ pc = "done"
    /\ Len(t.v) = MaxTime + 1
    /\ IsArray(N_Rn222) /\ Len(N_Rn222.v) = MaxTime + 1
    /\ \A i, j \in 1..Len(N_Rn222.v) : i # j => N_Rn222.v[i] # N_Rn222.v[j]
    /\ SomePositive(A_Rn222)

====
